---- MODULE Spec2Model ----
(***************************************************************************)
(* A model of the navigation demo in src/src/main.rs: the Bevy systems     *)
(* spawn_scene, read_colliders, navigate and draw_nav_mesh, the command    *)
(* queue that defers their structural changes to the end of the stage, and *)
(* the RwLock that guards the shared navigation mesh.                      *)
(***************************************************************************)
EXTENDS Integers, Sequences, FiniteSets, TLC

\* ------------------------------------------------------------------ bounds

\* Number of entities the loaded glTF scene instantiates.
NEnt == 4

\* Most vertices in a tile, most indices in a polygon, most polygons in a tile.
MaxVerts == 3
MaxPolyLen == 3
MaxPolys == 2
\* Most waypoints string pulling returns.
MaxWaypoints == 2
\* Most tile rebuilds the builder starts.
MaxRebuilds == 2

Ent == 1..NEnt
\* The directional light spawned by spawn_scene (Name "Light", no Children).
LightEnt == NEnt + 1
AllEnt == Ent \cup {LightEnt}

VARIABLES
    \* --- the glTF scene and the ECS world
    parent,      \* parent[e]: the entity e hangs under (0: the scene root)
    name,        \* name[e]: the Name component, a sequence of characters (<<>>: none)
    mesh,        \* mesh[e]: "none" | "ok" | "unloaded" | "degenerate" (the Handle<Mesh>)
    alive,       \* the entities that exist in the world
    added,       \* entities whose Name was added since read_colliders last ran
    collider,    \* collider[e]: 0, or the entity whose mesh the Collider was built from
    affector,    \* affector[e]: the entity carries NavMeshAffector
    toSpawn,     \* the ToSpawn resource exists
    gltfLoaded,  \* Assets<Gltf> holds level.glb
    scene,       \* "none" | "queued" (SceneBundle spawned) | "instantiated"
    cmds,        \* the deferred command queue of the current stage
    \* --- the frame loop
    schedule,    \* the systems main() registered
    pending,     \* the systems that have not yet run in the current frame
    panicked,    \* "none", or the panic that ended the process
    \* --- observation of read_colliders
    seen,        \* entities the Added<Name> query has handed to read_colliders
    runs,        \* runs[e]: how many times read_colliders has iterated over e
    \* --- the navigation mesh, its lock and the debug lines
    tiles,       \* tiles[t]: NoTile or [vertices, polygons]
    writer,      \* the builder: [state, tile]
    rebuilds,    \* tile rebuilds the builder has started
    poisoned,    \* the RwLock is poisoned
    reader,      \* [sys, pc]: the system that holds the read guard and where it is
    skipped,     \* systems that found the lock poisoned in this frame
    lines,       \* DebugLines: the segments submitted in this frame
    camera,      \* translations of the entities with UnrealCameraController
    navOutcome,  \* what navigate's query returned in this frame
    lastFailed   \* the query of the previous frame failed

sceneVars == <<parent, name, mesh, alive, added, collider, affector, toSpawn,
               gltfLoaded, scene, cmds, seen, runs>>
navVars == <<tiles, writer, rebuilds, poisoned, reader, skipped, lines, camera,
             navOutcome, lastFailed>>
vars == <<sceneVars, navVars, schedule, pending, panicked>>

\* ------------------------------------------------------------------ names

Uppercase == <<"A","B","C","D","E","F","G","H","I","J","K","L","M",
               "N","O","P","Q","R","S","T","U","V","W","X","Y","Z">>
Lowercase == <<"a","b","c","d","e","f","g","h","i","j","k","l","m",
               "n","o","p","q","r","s","t","u","v","w","x","y","z">>

\* str::to_lowercase, character by character.
ToLowerChar(c) ==
    IF \E i \in 1..Len(Uppercase) : Uppercase[i] = c
    THEN Lowercase[CHOOSE i \in 1..Len(Uppercase) : Uppercase[i] = c]
    ELSE c

to_lowercase(s) == [i \in 1..Len(s) |-> ToLowerChar(s[i])]

\* str::contains: pat occurs as a contiguous substring of s.
contains(s, pat) ==
    \E i \in 0..(Len(s) - Len(pat)) : SubSeq(s, i + 1, i + Len(pat)) = pat

ColliderPattern == <<"c","o","l","l","i","d","e","r">>

\* line 129: name.to_lowercase().contains("collider")
IsColliderName(n) == contains(to_lowercase(n), ColliderPattern)

NameWallCollider == <<"W","a","l","l","_","C","o","l","l","i","d","e","r">>
NameNearMiss == <<"C","o","l","l","i","d","e","_","r">>
NameLight == <<"L","i","g","h","t">>
NoName == <<>>

\* The names a node of the scene may carry.
SceneNames == {NameWallCollider, NameNearMiss}
MeshKinds == {"ok", "unloaded", "degenerate"}

\* ------------------------------------------------------------------ scene

RECURSIVE SetToSeq(_)
\* The members of a set of entities in increasing order (spawn order).
SetToSeq(S) ==
    IF S = {} THEN <<>>
    ELSE LET m == CHOOSE x \in S : \A y \in S : x <= y
         IN <<m>> \o SetToSeq(S \ {m})

\* The entity has a Children component: the scene gave it children (the
\* component stays on the parent when its children are despawned).
HasChildren(e) == \E c \in Ent : parent[c] = e

\* The Children component: the living children, in spawn order.
Children(e) == SetToSeq({c \in alive : parent[c] = e})

\* line 132: mesh_handles.get(*entity).ok()
HasMeshHandle(c) == mesh[c] # "none"

\* lines 130-133: the children that hold a Handle<Mesh>, in child order.
MeshChildren(e) == SelectSeq(Children(e), HasMeshHandle)

\* The scenes the glTF loader produces: every node carries a Name and no mesh;
\* the primitives of a node's mesh are leaf children that hold the mesh handle
\* and carry no Name.
WellFormedScene(p, n, m) ==
    /\ \A e \in Ent : p[e] < e
    /\ \A e \in Ent : (m[e] = "none") <=> (n[e] # NoName)
    /\ \A e \in Ent : p[e] # 0 => m[p[e]] = "none"
    /\ \A e \in Ent : m[e] # "none" => p[e] # 0

\* ------------------------------------------------------------------ commands

SpawnSceneCmd == [op |-> "spawn_scene", e |-> 0, src |-> 0]
RemoveToSpawnCmd == [op |-> "remove_resource", e |-> 0, src |-> 0]
SpawnLightCmd == [op |-> "spawn_light", e |-> LightEnt, src |-> 0]
DespawnRecursiveCmd(e) == [op |-> "despawn_recursive", e |-> e, src |-> 0]
InsertColliderCmd(e, src) == [op |-> "insert", e |-> e, src |-> src]

\* The part of the world that commands change.
World == [alive |-> alive, added |-> added, collider |-> collider,
          affector |-> affector, toSpawn |-> toSpawn, scene |-> scene,
          panic |-> "none"]

DescendantsIn(w, e) ==
    LET RECURSIVE D(_)
        D(x) == LET cs == {c \in w.alive : parent[c] = x}
                IN cs \cup UNION {D(c) : c \in cs}
    IN D(e)

\* One command applied to the world w. Commands::insert on an entity that no
\* longer exists panics; a despawn of one that no longer exists is only logged.
ApplyCommand(w, c) ==
    CASE c.op = "spawn_scene" -> [w EXCEPT !.scene = "queued"]
      [] c.op = "remove_resource" -> [w EXCEPT !.toSpawn = FALSE]
      [] c.op = "spawn_light" ->
            [w EXCEPT !.alive = @ \cup {c.e}, !.added = @ \cup {c.e}]
      [] c.op = "despawn_recursive" ->
            IF c.e \in w.alive
            THEN [w EXCEPT !.alive = @ \ ({c.e} \cup DescendantsIn(w, c.e))]
            ELSE w
      [] c.op = "insert" ->
            IF c.e \in w.alive
            THEN [w EXCEPT !.collider[c.e] = c.src, !.affector[c.e] = TRUE]
            ELSE [w EXCEPT !.panic = "insert_missing_entity"]

RECURSIVE ApplyCommands(_, _)
ApplyCommands(w, q) ==
    IF q = <<>> \/ w.panic # "none" THEN w
    ELSE ApplyCommands(ApplyCommand(w, Head(q)), Tail(q))

\* ------------------------------------------------------------------ systems

\* System s is due in this frame and the process is alive.
Running(s) == s \in pending /\ panicked = "none"

\* The asset server finishes loading level.glb (line 66) in the background.
asset_loaded ==
    /\ panicked = "none"
    /\ ~gltfLoaded
    /\ gltfLoaded' = TRUE
    /\ UNCHANGED <<parent, name, mesh, alive, added, collider, affector, toSpawn,
                   scene, cmds, seen, runs, navVars, schedule, pending, panicked>>

\* lines 78-120
spawn_scene ==
    /\ Running("spawn_scene")
    /\ cmds' = IF toSpawn /\ gltfLoaded
               THEN cmds \o <<SpawnSceneCmd, RemoveToSpawnCmd, SpawnLightCmd>>
               ELSE cmds
    /\ pending' = pending \ {"spawn_scene"}
    /\ UNCHANGED <<parent, name, mesh, alive, added, collider, affector, toSpawn,
                   gltfLoaded, scene, seen, runs, navVars, schedule, panicked>>

AddedNameQueryNoFilter ==
    SetToSeq({e \in alive : name[e] # NoName /\ HasChildren(e)})

\* line 124: Query<(Entity, &Name, &Children), Added<Name>>, in entity order.
AddedNameQuery ==
    SetToSeq({e \in alive \cap added : name[e] # NoName /\ HasChildren(e)})

\* lines 129-144 for one entity: the commands queued, or the unwrap that panics.
ExtractNode(e, q) ==
    IF ~IsColliderName(name[e]) THEN [cmds |-> q, panic |-> "none"]
    ELSE LET colliders == MeshChildren(e) IN
         IF colliders = <<>> THEN [cmds |-> q, panic |-> "unwrap_first_134"]
         ELSE LET collider_entity == Head(colliders)
                  q1 == Append(q, DespawnRecursiveCmd(collider_entity))
              IN IF mesh[collider_entity] = "unloaded"
                 THEN [cmds |-> q, panic |-> "unwrap_mesh_135"]
                 ELSE IF mesh[collider_entity] = "degenerate"
                 THEN [cmds |-> q1, panic |-> "unwrap_collider_139"]
                 ELSE [cmds |-> Append(q1, InsertColliderCmd(e, collider_entity)),
                       panic |-> "none"]

RECURSIVE ExtractAll(_, _)
\* line 128: the loop over the query; a panic ends it.
ExtractAll(todo, q) ==
    IF todo = <<>> THEN [cmds |-> q, panic |-> "none"]
    ELSE LET r == ExtractNode(Head(todo), q)
         IN IF r.panic # "none" THEN r ELSE ExtractAll(Tail(todo), r.cmds)

\* lines 122-146
read_colliders ==
    /\ Running("read_colliders")
    /\ LET todo == AddedNameQuery
           r == ExtractAll(todo, cmds)
       IN /\ seen' = seen \cup {todo[i] : i \in 1..Len(todo)}
          /\ runs' = [e \in AllEnt |->
                        IF \E i \in 1..Len(todo) : todo[i] = e
                        THEN runs[e] + 1 ELSE runs[e]]
          /\ added' = {}
          /\ IF r.panic # "none"
             THEN /\ panicked' = r.panic
                  /\ UNCHANGED <<cmds, pending>>
             ELSE /\ cmds' = r.cmds
                  /\ pending' = pending \ {"read_colliders"}
                  /\ UNCHANGED panicked
    /\ UNCHANGED <<parent, name, mesh, alive, collider, affector, toSpawn,
                   gltfLoaded, scene, navVars, schedule>>

\* The end of the stage: the queued commands are applied in order.
apply_commands ==
    /\ panicked = "none"
    /\ pending = {}
    /\ cmds # <<>>
    /\ LET w == ApplyCommands(World, cmds)
       IN /\ alive' = w.alive
          /\ added' = w.added
          /\ collider' = w.collider
          /\ affector' = w.affector
          /\ toSpawn' = w.toSpawn
          /\ scene' = w.scene
          /\ panicked' = w.panic
    /\ cmds' = <<>>
    /\ UNCHANGED <<parent, name, mesh, gltfLoaded, seen, runs, navVars,
                   schedule, pending>>

NoOutcome == [kind |-> "none", path |-> <<>>, end |-> <<0, 0, 0>>]

\* The frame ends: the scene spawner instantiates a scene queued in this frame,
\* the lines of the frame (duration 0) are dropped, and every system is due again.
next_frame ==
    /\ panicked = "none"
    /\ pending = {}
    /\ cmds = <<>>
    /\ reader.sys = "none"
    /\ IF scene = "queued"
       THEN /\ scene' = "instantiated"
            /\ alive' = alive \cup Ent
            /\ added' = added \cup {e \in Ent : name[e] # NoName}
       ELSE UNCHANGED <<scene, alive, added>>
    /\ lines' = <<>>
    /\ skipped' = {}
    /\ lastFailed' = (navOutcome.kind \in {"path_err", "string_err"})
    /\ navOutcome' = NoOutcome
    /\ pending' = schedule
    /\ UNCHANGED <<parent, name, mesh, collider, affector, toSpawn, gltfLoaded,
                   cmds, seen, runs, tiles, writer, rebuilds, poisoned, reader,
                   camera, schedule, panicked>>

\* ------------------------------------------------------------------ navigation mesh

\* The tiles of the mesh, by tile coordinate.
TileIds == {1, 2}
NoTile == [present |-> FALSE, vertices |-> <<>>, polygons |-> <<>>]

\* Vertex j (from 0) of tile t.
VertexPos(t, j) == <<j, 0, t>>

\* A polygon over n vertices: len indices from index s on, wrapping around.
Window(n, s, len) == [i \in 1..len |-> (s + i - 1) % n]

Max(a, b) == IF a >= b THEN a ELSE b

\* A tile with n vertices and c polygons, polygon k starting at vertex k - 1, all
\* of length len or (taper) each one index shorter than the one before.
Tile(t, n, len, c, taper) ==
    [present |-> TRUE,
     vertices |-> [j \in 1..n |-> VertexPos(t, j - 1)],
     polygons |-> [k \in 1..c |->
                     IF n = 0 THEN <<>>
                     ELSE Window(n, (k - 1) % n,
                                 IF taper THEN Max(len - (k - 1), 0) ELSE len)]]

\* Every index of every polygon of the tile is below its vertex count.
TileWellFormed(tile) ==
    \A p \in 1..Len(tile.polygons) : \A i \in 1..Len(tile.polygons[p]) :
        tile.polygons[p][i] < Len(tile.vertices)

\* ------------------------------------------------------------------ the lock

ReadOutcomeTryRead ==
    IF writer.state # "idle" \/ poisoned THEN "err" ELSE "ok"

ReadOutcomeIgnorePoison ==
    IF writer.state # "idle" THEN "blocked" ELSE "ok"

\* lines 154 and 180: nav_mesh.get().read(). RwLock::read waits while a writer
\* holds the lock and returns Err only when the lock is poisoned.
ReadOutcome ==
    IF writer.state # "idle" THEN "blocked"
    ELSE IF poisoned THEN "err" ELSE "ok"

\* navigate and draw_nav_mesh both take ResMut<DebugLines> (lines 151, 179): the
\* scheduler never runs one while the other runs.
ReadyToRead(s) == Running(s) /\ reader.sys = "none"

\* `if let Ok(nav_mesh) = nav_mesh.get().read()`: system s takes the read guard,
\* or finds the lock poisoned and does nothing in this frame.
read_lock(s) ==
    /\ ReadyToRead(s)
    /\ ReadOutcome # "blocked"
    /\ IF ReadOutcome = "ok"
       THEN /\ reader' = [sys |-> s, pc |-> "locked"]
            /\ UNCHANGED <<skipped, pending>>
       ELSE /\ skipped' = skipped \cup {s}
            /\ pending' = pending \ {s}
            /\ UNCHANGED reader
    /\ UNCHANGED <<sceneVars, tiles, writer, rebuilds, poisoned, lines, camera,
                   navOutcome, lastFailed, schedule, panicked>>

\* The end of the system's `if let` block: the read guard is dropped.
release(s) ==
    /\ panicked = "none"
    /\ reader = [sys |-> s, pc |-> "done"]
    /\ reader' = [sys |-> "none", pc |-> "none"]
    /\ pending' = pending \ {s}
    /\ UNCHANGED <<sceneVars, tiles, writer, rebuilds, poisoned, skipped, lines,
                   camera, navOutcome, lastFailed, schedule, panicked>>

\* ------------------------------------------------------------------ draw_nav_mesh

White == "white"
Red == "red"
Segment(a, b, color) == [a |-> a, b |-> b, color |-> color]

\* Vec3::Y added to a position.
PlusY(v) == <<v[1], v[2] + 1, v[3]>>

\* Some index of some polygon is not an index of tile.vertices: lines 186-187
\* panic on it.
IndexOutOfBounds(tile) == ~TileWellFormed(tile)

PolygonLinesOpen(tile, indices) ==
    [i \in 1..(Len(indices) - 1) |->
        Segment(tile.vertices[indices[i] + 1], tile.vertices[indices[i + 1] + 1], White)]

\* lines 184-189: for i in 0..indices.len(), a line from vertex indices[i] to
\* vertex indices[(i + 1) % indices.len()].
PolygonLines(tile, indices) ==
    [k \in 1..Len(indices) |->
        LET i == k - 1
        IN Segment(tile.vertices[indices[i + 1] + 1],
                   tile.vertices[indices[((i + 1) % Len(indices)) + 1] + 1],
                   White)]

RECURSIVE AllPolygonLines(_, _)
\* line 183: the loop over tile.polygons.
AllPolygonLines(tile, polys) ==
    IF polys = <<>> THEN <<>>
    ELSE PolygonLines(tile, Head(polys)) \o AllPolygonLines(tile, Tail(polys))

\* lines 193-195: a vertical line at every vertex.
VertexLines(tile) ==
    [j \in 1..Len(tile.vertices) |->
        Segment(tile.vertices[j], PlusY(tile.vertices[j]), White)]

\* lines 182-195 for one tile.
TileLines(tile) == AllPolygonLines(tile, tile.polygons) \o VertexLines(tile)

RECURSIVE DrawTiles(_, _)
\* line 181: the loop over the tiles, in the order the map yields them.
DrawTiles(ts, order) ==
    IF order = <<>> THEN <<>>
    ELSE TileLines(ts[Head(order)]) \o DrawTiles(ts, Tail(order))

PresentTiles == {t \in TileIds : tiles[t].present}

\* The orders in which a hash map may yield the tiles in S.
Orders(S) ==
    {o \in [1..Cardinality(S) -> S] : \A i, j \in 1..Cardinality(S) : i # j => o[i] # o[j]}

\* lines 179-198, after the read guard is taken
draw_nav_mesh_body ==
    /\ panicked = "none"
    /\ reader = [sys |-> "draw_nav_mesh", pc |-> "locked"]
    /\ IF \E t \in PresentTiles : IndexOutOfBounds(tiles[t])
       THEN /\ panicked' = "index_out_of_bounds_186"
            /\ UNCHANGED <<lines, reader>>
       ELSE /\ \E order \in Orders(PresentTiles) :
                 lines' = lines \o DrawTiles(tiles, order)
            /\ reader' = [reader EXCEPT !.pc = "done"]
            /\ UNCHANGED panicked
    /\ UNCHANGED <<sceneVars, tiles, writer, rebuilds, poisoned, skipped, camera,
                   navOutcome, lastFailed, schedule, pending>>

draw_nav_mesh_read == read_lock("draw_nav_mesh")
draw_nav_mesh_release == release("draw_nav_mesh")

\* ------------------------------------------------------------------ navigate

\* line 155
StartPos == <<0, 0, 0>>
\* line 73, and where the camera controller may move the camera
InitialCameraPos == <<-2, 5, 5>>
CameraPositions == {InitialCameraPos, <<1, 5, 0>>}

Waypoint(i) == <<i, 0, i>>
\* What find_path and perform_string_pulling_on_path may return.
QueryOutcomes ==
    {[kind |-> "path_err", path |-> <<>>], [kind |-> "string_err", path |-> <<>>]}
    \cup {[kind |-> "ok", path |-> [i \in 1..k |-> Waypoint(i)]] : k \in 0..MaxWaypoints}

PathPointsNoEnd(start_pos, string_path, end_pos) == <<start_pos>> \o string_path

\* lines 164-166: iter::once(start_pos).chain(string_path).chain(iter::once(end_pos))
PathPoints(start_pos, string_path, end_pos) ==
    <<start_pos>> \o string_path \o <<end_pos>>

\* Iterator::skip
Skip(xs, n) == IF n >= Len(xs) THEN <<>> ELSE SubSeq(xs, n + 1, Len(xs))

RECURSIVE Zip(_, _)
\* Iterator::zip: pairs up to the end of the shorter sequence.
Zip(xs, ys) ==
    IF xs = <<>> \/ ys = <<>> THEN <<>>
    ELSE <<<<Head(xs), Head(ys)>>>> \o Zip(Tail(xs), Tail(ys))

NavigateLinesFallback(outcome, start_pos, end_pos) ==
    IF outcome.kind = "ok"
    THEN LET path == PathPoints(start_pos, outcome.path, end_pos)
             pairs == Zip(path, Skip(path, 1))
         IN [i \in 1..Len(pairs) |-> Segment(pairs[i][1], pairs[i][2], Red)]
    ELSE <<Segment(start_pos, end_pos, Red)>>

\* lines 159-175: the lines navigate submits for what the two queries returned.
NavigateLines(outcome, start_pos, end_pos) ==
    IF outcome.kind = "ok"
    THEN LET path == PathPoints(start_pos, outcome.path, end_pos)
             pairs == Zip(path, Skip(path, 1))
         IN [i \in 1..Len(pairs) |-> Segment(pairs[i][1], pairs[i][2], Red)]
    ELSE <<>>

\* lines 148-177, after the read guard is taken
navigate_body ==
    /\ panicked = "none"
    /\ reader = [sys |-> "navigate", pc |-> "locked"]
    /\ IF camera = <<>>
       THEN /\ panicked' = "unwrap_camera_156"
            /\ UNCHANGED <<lines, reader, navOutcome>>
       ELSE /\ \E outcome \in QueryOutcomes :
                 /\ lines' = lines \o NavigateLines(outcome, StartPos, Head(camera))
                 /\ navOutcome' = [kind |-> outcome.kind, path |-> outcome.path,
                                   end |-> Head(camera)]
            /\ reader' = [reader EXCEPT !.pc = "done"]
            /\ UNCHANGED panicked
    /\ UNCHANGED <<sceneVars, tiles, writer, rebuilds, poisoned, skipped, camera,
                   lastFailed, schedule, pending>>

navigate_read == read_lock("navigate")
navigate_release == release("navigate")

\* The camera controller (lines 33, 69-75) moves the camera before the systems
\* of a frame run.
camera_controller ==
    /\ panicked = "none"
    /\ pending = schedule
    /\ reader.sys = "none"
    /\ \E pos \in CameraPositions \ {Head(camera)} : camera' = <<pos>>
    /\ UNCHANGED <<sceneVars, tiles, writer, rebuilds, poisoned, reader, skipped,
                   lines, navOutcome, lastFailed, schedule, pending, panicked>>

\* ------------------------------------------------------------------ the builder

\* The builder takes the mesh for writing to rebuild tile t.
builder_write ==
    /\ panicked = "none"
    /\ rebuilds < MaxRebuilds
    /\ writer.state = "idle" /\ reader.sys = "none" /\ ~poisoned
    /\ \E t \in TileIds : writer' = [state |-> "held", tile |-> t]
    /\ rebuilds' = rebuilds + 1
    /\ UNCHANGED <<sceneVars, tiles, poisoned, reader, skipped, lines, camera,
                   navOutcome, lastFailed, schedule, pending, panicked>>

BuilderVertexCounts == {0, 1, MaxVerts}

\* First the vertices of the tile are replaced ...
builder_replace_vertices ==
    /\ panicked = "none"
    /\ writer.state = "held"
    /\ \E n \in BuilderVertexCounts :
         tiles' = [tiles EXCEPT ![writer.tile] =
                     [present |-> TRUE,
                      vertices |-> [j \in 1..n |-> VertexPos(writer.tile, j - 1)],
                      polygons |-> @.polygons]]
    /\ writer' = [writer EXCEPT !.state = "half"]
    /\ UNCHANGED <<sceneVars, rebuilds, poisoned, reader, skipped, lines, camera,
                   navOutcome, lastFailed, schedule, pending, panicked>>

\* ... then its polygons, over the new vertices.
builder_replace_polygons ==
    /\ panicked = "none"
    /\ writer.state = "half"
    /\ LET n == Len(tiles[writer.tile].vertices)
       IN \E c \in 0..1 :
            tiles' = [tiles EXCEPT ![writer.tile].polygons =
                        Tile(writer.tile, n, n, c, FALSE).polygons]
    /\ writer' = [writer EXCEPT !.state = "done"]
    /\ UNCHANGED <<sceneVars, rebuilds, poisoned, reader, skipped, lines, camera,
                   navOutcome, lastFailed, schedule, pending, panicked>>

\* The write guard is dropped: the rebuilt tile becomes visible to readers.
builder_release ==
    /\ panicked = "none"
    /\ writer.state = "done"
    /\ writer' = [state |-> "idle", tile |-> 0]
    /\ UNCHANGED <<sceneVars, tiles, rebuilds, poisoned, reader, skipped, lines,
                   camera, navOutcome, lastFailed, schedule, pending, panicked>>

\* The builder's task panics while it holds the write guard: the guard is dropped
\* by the unwinding, the tile stays as it is, and the lock is poisoned.
builder_panic ==
    /\ panicked = "none"
    /\ writer.state \in {"held", "half"}
    /\ writer' = [state |-> "idle", tile |-> 0]
    /\ poisoned' = TRUE
    /\ UNCHANGED <<sceneVars, tiles, rebuilds, reader, skipped, lines, camera,
                   navOutcome, lastFailed, schedule, pending, panicked>>

\* ------------------------------------------------------------------ specifications

\* The state after setup (lines 65-76): the camera exists, ToSpawn is set, the
\* scene is still loading, the navigation mesh is empty.
InitWorld ==
    /\ alive = {}
    /\ added = {}
    /\ collider = [e \in AllEnt |-> 0]
    /\ affector = [e \in AllEnt |-> FALSE]
    /\ toSpawn = TRUE
    /\ gltfLoaded = FALSE
    /\ scene = "none"
    /\ cmds = <<>>
    /\ panicked = "none"
    /\ seen = {}
    /\ runs = [e \in AllEnt |-> 0]

\* Nobody holds the lock, nothing is drawn, the camera is where setup put it.
InitLock ==
    /\ writer = [state |-> "idle", tile |-> 0]
    /\ rebuilds = 0
    /\ poisoned = FALSE
    /\ reader = [sys |-> "none", pc |-> "none"]
    /\ skipped = {}
    /\ lines = <<>>
    /\ camera = <<InitialCameraPos>>
    /\ navOutcome = NoOutcome
    /\ lastFailed = FALSE

InitNavMesh ==
    /\ tiles = [t \in TileIds |-> NoTile]
    /\ InitLock

\* What one entity of the scene is: a named node, or a primitive holding a mesh.
EntityKinds == [name : SceneNames, mesh : {"none"}] \cup [name : {NoName}, mesh : MeshKinds]

ParentChoices == {p \in [Ent -> 0..NEnt] : \A e \in Ent : p[e] < e}

InitScene ==
    \E p \in ParentChoices, k \in [Ent -> EntityKinds] :
        LET n == [e \in Ent |-> k[e].name]
            m == [e \in Ent |-> k[e].mesh]
        IN /\ WellFormedScene(p, n, m)
           /\ parent = [e \in AllEnt |-> IF e = LightEnt THEN 0 ELSE p[e]]
           /\ name = [e \in AllEnt |-> IF e = LightEnt THEN NameLight ELSE n[e]]
           /\ mesh = [e \in AllEnt |-> IF e = LightEnt THEN "none" ELSE m[e]]

ExtractSystems == {"spawn_scene", "read_colliders"}

InitExtract ==
    /\ InitScene
    /\ InitWorld
    /\ InitNavMesh
    /\ schedule = ExtractSystems
    /\ pending = schedule

NextExtract ==
    \/ asset_loaded
    \/ spawn_scene
    \/ read_colliders
    \/ apply_commands
    \/ next_frame

\* The scene pipeline: loading, spawning and collider extraction.
SpecExtract == InitExtract /\ [][NextExtract]_vars

\* A scene without colliders, for the specifications that leave the scene alone.
InitPlainScene ==
    /\ parent = [e \in AllEnt |-> 0]
    /\ name = [e \in AllEnt |-> IF e = LightEnt THEN NameLight ELSE NameNearMiss]
    /\ mesh = [e \in AllEnt |-> "none"]

NavSystems == {"draw_nav_mesh", "navigate"}

InitNav ==
    /\ InitPlainScene
    /\ InitWorld
    /\ InitNavMesh
    /\ schedule = NavSystems
    /\ pending = schedule

NextNav ==
    \/ camera_controller
    \/ navigate_read
    \/ navigate_body
    \/ navigate_release
    \/ draw_nav_mesh_read
    \/ draw_nav_mesh_body
    \/ draw_nav_mesh_release
    \/ builder_write
    \/ builder_replace_vertices
    \/ builder_replace_polygons
    \/ builder_release
    \/ builder_panic
    \/ next_frame

\* The two readers of the navigation mesh and the builder that writes it.
SpecNav == InitNav /\ [][NextNav]_vars

\* The meshes draw_nav_mesh is given: every tile absent or any tile of the family.
DrawInputs(t) ==
    {NoTile} \cup {Tile(t, n, len, c, taper) :
                     n \in 0..MaxVerts, len \in 0..MaxPolyLen, c \in 0..MaxPolys,
                     taper \in BOOLEAN}

InitDraw ==
    /\ InitPlainScene
    /\ InitWorld
    /\ InitLock
    /\ \E t1 \in DrawInputs(1), t2 \in DrawInputs(2) :
         tiles = [t \in TileIds |-> IF t = 1 THEN t1 ELSE t2]
    /\ schedule = {"draw_nav_mesh"}
    /\ pending = schedule

NextDraw ==
    \/ draw_nav_mesh_read
    \/ draw_nav_mesh_body
    \/ draw_nav_mesh_release
    \/ next_frame

\* draw_nav_mesh over every mesh of the family.
SpecDraw == InitDraw /\ [][NextDraw]_vars

\* The whole program: the four systems of lines 55-58 in one frame loop.
Init ==
    /\ InitScene
    /\ InitWorld
    /\ InitNavMesh
    /\ schedule = ExtractSystems \cup NavSystems
    /\ pending = schedule

Next == NextExtract \/ NextNav

Spec == Init /\ [][Next]_vars

\* ------------------------------------------------------------------ collider extraction

\* The mesh-bearing direct children the scene gave node e.
SceneMeshChildren(e) == {c \in Ent : parent[c] = e /\ mesh[c] # "none"}

FirstSceneMeshChild(e) == CHOOSE c \in SceneMeshChildren(e) : \A d \in SceneMeshChildren(e) : c <= d

\* read_colliders has run over e and the stage of that run is over: its commands
\* are applied, or the process has panicked.
Settled(e) == e \in seen /\ (cmds = <<>> \/ panicked # "none")

\* A node that matches the naming convention and whose first mesh-bearing child
\* holds a mesh the registry resolves and the physics engine accepts.
Extractable(e) ==
    /\ IsColliderName(name[e])
    /\ SceneMeshChildren(e) # {}
    /\ mesh[FirstSceneMeshChild(e)] = "ok"

\* C1: once the run of read_colliders that saw a collider-named node with exactly
\* one mesh-bearing child (a usable mesh) is over, the node carries the Collider
\* built from that child and a NavMeshAffector, and the child no longer exists.
C1_ExtractionAttachesShapeAndTag ==
    \A e \in Ent :
        (Settled(e) /\ Extractable(e) /\ Cardinality(SceneMeshChildren(e)) = 1)
        => /\ collider[e] = FirstSceneMeshChild(e)
           /\ affector[e]
           /\ SceneMeshChildren(e) \cap alive = {}

\* C2: a collider-named node without a mesh-bearing child is an error of that node
\* alone: the process goes on, nothing is attached to the node, nothing of the
\* scene is despawned for it, and the other nodes of the frame are processed.
C2_MissingGeometryIsPerNodeError ==
    \A e \in Ent :
        (Settled(e) /\ IsColliderName(name[e]) /\ SceneMeshChildren(e) = {})
        => /\ panicked = "none"
           /\ collider[e] = 0 /\ ~affector[e]
           /\ \A c \in Ent : parent[c] = e => c \in alive
           /\ \A o \in seen : Extractable(o) => collider[o] # 0

\* C3: read_colliders iterates over a node at most once in the life of the
\* process, so a node that carries its Collider is never extracted again: its
\* Collider stays the one built from its first mesh-bearing child, and no other
\* child of it is ever despawned.
C3_ProcessedAtMostOnce ==
    \A e \in AllEnt :
        /\ runs[e] <= 1
        /\ collider[e] # 0 =>
              /\ runs[e] = 1
              /\ affector[e]
              /\ collider[e] = FirstSceneMeshChild(e)
              /\ \A c \in Ent : (parent[c] = e /\ c # collider[e]) => c \in alive

\* C3's case: a later frame's read_colliders has run (spawn_scene has not yet)
\* over a world in which a node already carries the Collider of its one extraction.
C3_Witness ==
    \E e \in Ent : collider[e] # 0 /\ runs[e] = 1 /\ pending = {"spawn_scene"}

\* C4: no failure ends the process: the frame loop always goes on.
C4_NoFailureIsProcessFatal == panicked = "none"

\* C10: once the run that saw them is over, a collider-named node with several
\* mesh-bearing children (the first one usable) carries the Collider built from
\* the first of them and a NavMeshAffector, only that child is gone, and a node
\* whose name does not match carries nothing and keeps all its children.
C10_FirstMatchPolicy ==
    \A e \in Ent : Settled(e) =>
        /\ (Extractable(e) /\ Cardinality(SceneMeshChildren(e)) >= 2)
           => /\ collider[e] = FirstSceneMeshChild(e)
              /\ affector[e]
              /\ \A c \in Ent : parent[c] = e =>
                    (c \in alive <=> c # FirstSceneMeshChild(e))
        /\ ~IsColliderName(name[e])
           => /\ collider[e] = 0 /\ ~affector[e]
              /\ \A c \in Ent : parent[c] = e => c \in alive

\* What extraction does when no unwrap panics (read with C1 and C10): the two
\* statements above hold in every state of a process that has not panicked.
ExtractionWithoutPanic ==
    panicked = "none" => C1_ExtractionAttachesShapeAndTag /\ C10_FirstMatchPolicy

\* ------------------------------------------------------------------ the lock, claims

C6_ReadersSeeWholeTiles ==
    /\ reader.sys = "draw_nav_mesh" => \A t \in TileIds : TileWellFormed(tiles[t])
    /\ panicked # "index_out_of_bounds_186"

\* C6's case: draw_nav_mesh holds the guard over a mesh in which a tile has been
\* rebuilt twice and carries a polygon, while the other tile is there as well.
C6_Witness ==
    /\ reader = [sys |-> "draw_nav_mesh", pc |-> "locked"]
    /\ rebuilds >= 2
    /\ \E t \in TileIds : tiles[t].present /\ tiles[t].polygons # <<>>
                          /\ tiles[t].polygons[1] # <<>>

\* ------------------------------------------------------------------ the lines, claims

IsWhite(l) == l.color = White
IsRed(l) == l.color = Red
WhiteLines == SelectSeq(lines, IsWhite)
RedLines == SelectSeq(lines, IsRed)

Count(seq, x) == Cardinality({k \in 1..Len(seq) : seq[k] = x})

\* The edges of the mesh: <<tile, polygon, position in the polygon>>.
EdgeSlots ==
    UNION {UNION {{<<t, p, i>> : i \in 1..Len(tiles[t].polygons[p])}
                  : p \in 1..Len(tiles[t].polygons)}
           : t \in PresentTiles}

\* The edge from the index at position i to the next one, the last one going
\* back to the first.
EdgeOf(slot) ==
    LET t == slot[1]
        poly == tiles[t].polygons[slot[2]]
        i == slot[3]
        j == IF i = Len(poly) THEN 1 ELSE i + 1
    IN Segment(tiles[t].vertices[poly[i] + 1], tiles[t].vertices[poly[j] + 1], White)

\* The vertices of the mesh: <<tile, vertex>>.
MarkerSlots == UNION {{<<t, j>> : j \in 1..Len(tiles[t].vertices)} : t \in PresentTiles}

MarkerOf(slot) ==
    LET v == tiles[slot[1]].vertices[slot[2]]
    IN Segment(v, <<v[1], v[2] + 1, v[3]>>, White)

\* C7: when draw_nav_mesh has drawn the mesh it holds, the lines it submitted are,
\* counted with multiplicity, one per polygon edge (each polygon's loop closed)
\* and one vertical marker per vertex of each tile, and nothing else.
C7_OneLinePerEdgeAndVertex ==
    reader = [sys |-> "draw_nav_mesh", pc |-> "done"] =>
        /\ Len(WhiteLines) = Cardinality(EdgeSlots) + Cardinality(MarkerSlots)
        /\ \A s \in {EdgeOf(e) : e \in EdgeSlots} \cup {MarkerOf(m) : m \in MarkerSlots} :
              Count(WhiteLines, s) =
                  Cardinality({e \in EdgeSlots : EdgeOf(e) = s})
                  + Cardinality({m \in MarkerSlots : MarkerOf(m) = s})

\* C7's case: two tiles are drawn, one of which holds the triangle [0, 1, 2].
C7_Witness ==
    /\ reader = [sys |-> "draw_nav_mesh", pc |-> "done"]
    /\ PresentTiles = TileIds
    /\ \E t \in TileIds : tiles[t].polygons # <<>> /\ tiles[t].polygons[1] = <<0, 1, 2>>
    /\ Len(WhiteLines) >= 6

\* Point i of the drawn path: the start anchor, the waypoints, the end anchor.
PathPoint(i) ==
    IF i = 0 THEN StartPos
    ELSE IF i <= Len(navOutcome.path) THEN navOutcome.path[i]
    ELSE navOutcome.end

ExpectedPathLines ==
    [i \in 1..(Len(navOutcome.path) + 1) |-> Segment(PathPoint(i - 1), PathPoint(i), Red)]

\* C8: in a frame whose two queries succeeded with k waypoints, the red lines are
\* exactly the k + 1 segments origin-w1, w1-w2, ..., wk-camera, in this order, the
\* end anchor being where the camera is in this frame.
C8_PathLines ==
    navOutcome.kind = "ok" =>
        /\ RedLines = ExpectedPathLines
        /\ Len(RedLines) = Len(navOutcome.path) + 1
        /\ navOutcome.end = Head(camera)

\* C8's case: a path of two waypoints drawn to a camera that has moved.
C8_Witness ==
    /\ navOutcome.kind = "ok"
    /\ Len(navOutcome.path) >= 2
    /\ navOutcome.end # InitialCameraPos

QueryFailed == navOutcome.kind \in {"path_err", "string_err"}

\* The panics that the two reader systems can raise.
ReaderPanics == {"unwrap_camera_156", "index_out_of_bounds_186"}

\* C9: in a frame whose path query or string pulling failed no red line is
\* submitted and no reader system has ended the process; and in a frame after
\* a failed one a query that succeeds is drawn in full.
C9_FailedQueryDrawsNothing ==
    /\ QueryFailed => RedLines = <<>> /\ panicked \notin ReaderPanics
    /\ (lastFailed /\ navOutcome.kind = "ok") => RedLines = ExpectedPathLines

\* C9's case: the frame after a failed query, its own query drawn.
C9_Witness ==
    /\ lastFailed
    /\ navOutcome.kind = "ok"
    /\ Len(navOutcome.path) >= 1

====
